---- MODULE Spec2Model ----
(***************************************************************************)
(* State-machine model of the payment service (src/main.py).               *)
(*                                                                         *)
(* The database tables (payments, transactions, idempotency_keys) and the  *)
(* in-memory metrics dictionary are the shared state.  Every HTTP handler  *)
(* is cut into one step per committed database transaction: the reads and  *)
(* the in-memory work that precede a db.commit() belong to the step of     *)
(* that commit, and a query whose result decides a branch is a step of     *)
(* its own.  A request runs in a slot.  Spec and SpecLedger run one        *)
(* request at a time; SpecConc lets the requests of two workers on one     *)
(* database interleave between their steps.  A commit may fail (the        *)
(* except branches of the handlers), at most MaxFaults times in a run.     *)
(*                                                                         *)
(* Amounts are integers (minor units are not modelled), timestamps are     *)
(* hours on the clock `now`.  Columns that no handler reads back for a     *)
(* decision and that are plain copies of request fields (user_id,          *)
(* currency, payment_method, reference, gateway_response, created_at,      *)
(* updated_at) are left out.                                               *)
(***************************************************************************)
EXTENDS Integers, Sequences, FiniteSets, TLC

VARIABLES
    payments,          \* table payments: payment_id -> row
    transactions,      \* table transactions, in insertion order
    idempotency_keys,  \* table idempotency_keys: a set of rows
    next_payment_id,   \* the serial behind payments.payment_id
    metrics,           \* the metrics dictionary
    tasks,             \* notification tasks handed to asyncio.create_task, in order
    now,               \* datetime.utcnow(), in hours
    pc,                \* per slot: where the handler running in it stands
    req,               \* per slot: the request and the handler's local variables
    last,              \* the request that finished last and its HTTP response
    served,            \* history: per key, the answer of its latest processed charge
    failed,            \* history: the charges answered with a 5xx error
    faults,            \* database failures injected so far
    deliveries         \* per attempted task: the attempts made and their outcome

vars == <<payments, transactions, idempotency_keys, next_payment_id, metrics,
          tasks, now, pc, req, last, served, failed, faults, deliveries>>

-----------------------------------------------------------------------------
(* Bounds of the model *)

MaxPaymentId == 2
MaxTransactions == 4
MaxFaults == 1
MaxTime == 48
MaxTasks == 2
MaxQueued == 1
TickHours == 24

(* Program constants *)

TTL_HOURS == 24
MAX_AMOUNT == 100000
NULL == -1

Slots == {1, 2}
Orders == {1, 2}
Keys == {"k1", "k2"}
ChargeAmounts == {0, 60, 100, 100001}
RefundAmounts == {NULL, 60, 100, 150}

PaymentStatus == {"PENDING", "PROCESSING", "COMPLETED", "FAILED", "REFUNDED", "CANCELLED"}

-----------------------------------------------------------------------------
(* Helper functions *)

\* a validation without the maximum
ValidAmountNoMax(v) == v > 0

\* PaymentCreate.validate_amount together with Field(gt=0)
ValidAmount(v) == v > 0 /\ ~(v > MAX_AMOUNT)

\* compute_request_hash: a digest of the request body; the model keeps the
\* body itself, which is what an injective digest stands for
compute_request_hash(order, amount) == <<order, amount>>

\* the transactions relationship of one payment, in insertion order
TransactionsOf(txs, pid) ==
    LET own == SelectSeq(txs, LAMBDA t : t.payment_id = pid)
    IN  [i \in 1 .. Len(own) |->
            [transaction_type |-> own[i].transaction_type,
             amount |-> own[i].amount,
             status |-> own[i].status]]

payment_to_dict(p, txs) ==
    [payment_id |-> p.payment_id,
     order_id |-> p.order_id,
     amount |-> p.amount,
     status |-> p.status,
     transaction_id |-> p.transaction_id,
     completed_at |-> p.completed_at,
     transactions |-> TransactionsOf(txs, p.payment_id)]

log_transaction(txs, pid, type, amount, status) ==
    Append(txs, [payment_id |-> pid, transaction_type |-> type,
                 amount |-> amount, status |-> status])

\* generate_transaction_id: a random string, which either repeats the
\* transaction_id of a stored payment or is a new one (new ones are numbered)
generate_transaction_id ==
    {payments[p].transaction_id : p \in DOMAIN payments} \cup {next_payment_id}

\* a lookup that never finds the order's payment
NoExistingPayment(order) == FALSE

\* db.query(Payment).filter(Payment.order_id == order_id).first()
ExistingPayment(order) ==
    \E p \in DOMAIN payments : payments[p].order_id = order

\* table payments with a unique constraint on transaction_id only
TransactionIdViolation(order, txn) ==
    \E p \in DOMAIN payments : payments[p].transaction_id = txn

\* table payments with a unique constraint on order_id only
OrderIdViolation(order, txn) ==
    \E p \in DOMAIN payments : payments[p].order_id = order

\* the unique constraints of table payments (order_id, transaction_id)
PaymentUniqueViolation(order, txn) ==
    \E p \in DOMAIN payments :
        payments[p].order_id = order \/ payments[p].transaction_id = txn

\* db.query(IdempotencyKey).filter(IdempotencyKey.idempotency_key == key)
RowsOf(key) == {row \in idempotency_keys : row.idempotency_key = key}

\* .first() of that query
FirstRow(key) == CHOOSE row \in RowsOf(key) : TRUE

\* the unique constraint of idempotency_keys.idempotency_key
KeyUniqueViolation(key) == RowsOf(key) # {}

\* existing_idempotency.expires_at < datetime.utcnow()
IsExpired(rec) == rec.expires_at < now

\* the outcome of the idempotency lookup of charge_payment
Lookup(key) ==
    IF RowsOf(key) = {} THEN "Absent"
    ELSE IF IsExpired(FirstRow(key)) THEN "Expired"
    ELSE "Fresh"

\* a delete that leaves the row in the table
KeepRow(row) == idempotency_keys

\* db.delete(existing_idempotency)
DeleteRow(row) == idempotency_keys \ {row}

IdempotencyRecord(key, pid, order, amount, body) ==
    [idempotency_key |-> key,
     payment_id |-> pid,
     request_hash |-> compute_request_hash(order, amount),
     response_body |-> body,
     status_code |-> 201,
     expires_at |-> now + TTL_HOURS]

Task(kind, order, payload) == [kind |-> kind, order_id |-> order, payload |-> payload]

-----------------------------------------------------------------------------
(* Slots *)

NoSnapshot == [payments |-> {}, transactions |-> 0, metrics_total |-> 0, stale |-> {}]

NoRequest ==
    [kind |-> "none", key |-> "", order_id |-> 0, amount |-> 0,
     payment_id |-> 0, target |-> "", old_status |-> "", completed_at |-> NULL,
     refund_amount |-> NULL,
     prior |-> [code |-> 0, body |-> [detail |-> ""]],
     pre |-> NoSnapshot]

NoResponse == [code |-> 0, body |-> [detail |-> ""]]

NoLast == [request |-> NoRequest, path |-> "", code |-> 0, body |-> [detail |-> ""]]

\* a slot takes a new request once the last response has been delivered
Free(s) == pc[s] = "idle" /\ last = NoLast

\* a database statement may fail (connection lost, server error)
FaultChoices == IF faults < MaxFaults THEN {FALSE, TRUE} ELSE {FALSE}

Count(fault) == IF fault THEN 1 ELSE 0

\* what the key's latest processed charge answered, while its record has not expired
Prior(key) ==
    IF key \in DOMAIN served /\ ~(served[key].expires_at < now)
    THEN [code |-> served[key].code, body |-> served[key].body]
    ELSE NoResponse

\* history: what the ledger holds when a request arrives
Snapshot ==
    [payments |-> DOMAIN payments,
     transactions |-> Len(transactions),
     metrics_total |-> metrics.total_amount_processed,
     stale |-> {row.idempotency_key : row \in {x \in idempotency_keys : IsExpired(x)}}]

Request(kind, key, order, amount, pid, target) ==
    [kind |-> kind, key |-> key, order_id |-> order, amount |-> amount,
     payment_id |-> pid, target |-> target, old_status |-> "", completed_at |-> NULL,
     refund_amount |-> NULL,
     prior |-> IF kind = "charge" THEN Prior(key) ELSE NoResponse,
     pre |-> Snapshot]

\* a handler starts on the request r and goes on at step next
Begin(s, r, next) ==
    /\ req' = [req EXCEPT ![s] = r]
    /\ pc' = [pc EXCEPT ![s] = next]
    /\ UNCHANGED <<last, deliveries>>

\* the handler goes on at step next
Continue(s, r, next) ==
    /\ last = NoLast
    /\ req' = [req EXCEPT ![s] = r]
    /\ pc' = [pc EXCEPT ![s] = next]
    /\ UNCHANGED <<last, deliveries>>

\* the handler answers the request r and ends
Respond(s, r, path, code, body) ==
    /\ last = NoLast
    /\ req' = [req EXCEPT ![s] = NoRequest]
    /\ pc' = [pc EXCEPT ![s] = "idle"]
    /\ last' = [request |-> r, path |-> path, code |-> code, body |-> body]
    /\ UNCHANGED deliveries

-----------------------------------------------------------------------------
(* POST /v1/payments/charge *)

\* lines 497-500: the failure counters of the except branch
ChargeFailureMetrics(m) ==
    [m EXCEPT !.payments_failed_total = @ + 1,
              !.payment_processing_errors = @ + 1]

\* an except branch that releases no inventory
ChargeFailureTasksNone(ts, order) == ts

\* lines 503-505: the inventory release of the except branch
ChargeFailureTasks(ts, order) ==
    Append(ts, Task("inventory_release", order, "Payment processing failed"))

\* an except branch that stores the error under the idempotency key
ChargeErrorCached(s, r) ==
    /\ metrics' = ChargeFailureMetrics(metrics)
    /\ tasks' = ChargeFailureTasks(tasks, r.order_id)
    /\ Respond(s, r, "failed", 500, [detail |-> "Failed to charge payment"])
    /\ failed' = failed \cup {[key |-> r.key, order_id |-> r.order_id,
                               amount |-> r.amount, payment_id |-> r.payment_id]}
    /\ idempotency_keys' = idempotency_keys \cup
           {[idempotency_key |-> r.key,
             payment_id |-> r.payment_id,
             request_hash |-> compute_request_hash(r.order_id, r.amount),
             response_body |-> [detail |-> "Failed to charge payment"],
             status_code |-> 500,
             expires_at |-> now + TTL_HOURS]}
    /\ UNCHANGED served

\* lines 497-507: except Exception; db.rollback() drops what is not committed,
\* so the tables keep what the earlier commits of the request wrote
ChargeError(s, r) ==
    /\ metrics' = ChargeFailureMetrics(metrics)
    /\ tasks' = ChargeFailureTasks(tasks, r.order_id)
    /\ Respond(s, r, "failed", 500, [detail |-> "Failed to charge payment"])
    /\ failed' = failed \cup {[key |-> r.key, order_id |-> r.order_id,
                               amount |-> r.amount, payment_id |-> r.payment_id]}
    /\ UNCHANGED <<idempotency_keys, served>>

\* a replay that answers 200 instead of the stored status code
ReplayResponseOk(rec) == [code |-> 200, body |-> rec.response_body]

\* lines 402-408: the response replayed from a fresh idempotency record
ReplayResponse(rec) == [code |-> rec.status_code, body |-> rec.response_body]

\* a replay that counts as a created payment
ChargeReplayCounted(s, r) ==
    /\ Respond(s, r, "replayed", FirstRow(r.key).status_code, FirstRow(r.key).response_body)
    /\ metrics' = [metrics EXCEPT !.payments_created_total = @ + 1]
    /\ UNCHANGED <<idempotency_keys, tasks, served, failed, faults>>

\* lines 399-408: a fresh record answers the request
ChargeReplay(s, r) ==
    /\ Respond(s, r, "replayed", ReplayResponse(FirstRow(r.key)).code,
               ReplayResponse(FirstRow(r.key)).body)
    /\ UNCHANGED <<idempotency_keys, metrics, tasks, served, failed, faults>>

\* lines 383-408: validation, the idempotency lookup, replay or delete of the record
ChargeLookup(s, key, order, amount) ==
    LET r == Request("charge", key, order, amount, 0, "") IN
    /\ Free(s)
    /\ next_payment_id <= MaxPaymentId
    /\ UNCHANGED <<payments, transactions, next_payment_id, now>>
    /\ IF ~ValidAmount(amount)
       THEN /\ Respond(s, r, "invalid", 422, [detail |-> "ValidationError"])
            /\ UNCHANGED <<idempotency_keys, metrics, tasks, served, failed, faults>>
       ELSE CASE Lookup(key) = "Fresh" -> ChargeReplay(s, r)
              [] Lookup(key) = "Expired" ->
                   \E fault \in FaultChoices :
                      /\ faults' = faults + Count(fault)
                      /\ IF fault
                         THEN ChargeError(s, r)
                         ELSE /\ idempotency_keys' = DeleteRow(FirstRow(key))
                              /\ Begin(s, r, "charge_check")
                              /\ UNCHANGED <<metrics, tasks, served, failed>>
              [] Lookup(key) = "Absent" ->
                   /\ Begin(s, r, "charge_check")
                   /\ UNCHANGED <<idempotency_keys, metrics, tasks, served, failed, faults>>

\* lines 410-416: the business rule, one payment per order
ChargeCheckOrder(s) ==
    /\ pc[s] = "charge_check"
    /\ UNCHANGED <<payments, transactions, idempotency_keys, next_payment_id,
                   metrics, tasks, now, served, failed, faults>>
    /\ IF ExistingPayment(req[s].order_id)
       THEN Respond(s, req[s], "rejected", 400, [detail |-> "DuplicateOrder"])
       ELSE Continue(s, req[s], "charge_insert")

\* lines 422-432, 529-539: the new row of table payments
NewPayment(pid, order, amount, status, txn) ==
    [payment_id |-> pid, order_id |-> order, amount |-> amount, status |-> status,
     transaction_id |-> txn, completed_at |-> NULL]

\* lines 418-436: generate the transaction id, insert the payment, commit
ChargeInsert(s) ==
    /\ pc[s] = "charge_insert"
    /\ UNCHANGED <<transactions, now>>
    /\ \E txn \in generate_transaction_id, fault \in FaultChoices :
          /\ faults' = faults + Count(fault)
          /\ IF fault
             THEN /\ ChargeError(s, req[s])
                  /\ UNCHANGED <<payments, next_payment_id>>
             ELSE IF PaymentUniqueViolation(req[s].order_id, txn)
             THEN /\ ChargeError(s, req[s])
                  /\ next_payment_id' = next_payment_id + 1
                  /\ UNCHANGED payments
             ELSE /\ payments' = payments @@ (next_payment_id :>
                         NewPayment(next_payment_id, req[s].order_id, req[s].amount,
                                    "PROCESSING", txn))
                  /\ next_payment_id' = next_payment_id + 1
                  /\ Continue(s, [req[s] EXCEPT !.payment_id = next_payment_id],
                              "charge_log_initial")
                  /\ UNCHANGED <<idempotency_keys, metrics, tasks, served, failed>>

\* lines 438-443: log the initial transaction
ChargeLogInitial(s) ==
    /\ pc[s] = "charge_log_initial"
    /\ UNCHANGED <<payments, next_payment_id, now>>
    /\ \E fault \in FaultChoices :
          /\ faults' = faults + Count(fault)
          /\ IF fault
             THEN /\ ChargeError(s, req[s])
                  /\ UNCHANGED transactions
             ELSE /\ transactions' = log_transaction(transactions, req[s].payment_id,
                         "PAYMENT", payments[req[s].payment_id].amount, "PROCESSING")
                  /\ Continue(s, req[s], "charge_complete")
                  /\ UNCHANGED <<idempotency_keys, metrics, tasks, served, failed>>

\* lines 445-451: the simulated gateway success
ChargeComplete(s) ==
    /\ pc[s] = "charge_complete"
    /\ UNCHANGED <<transactions, next_payment_id, now>>
    /\ \E fault \in FaultChoices :
          /\ faults' = faults + Count(fault)
          /\ IF fault
             THEN /\ ChargeError(s, req[s])
                  /\ UNCHANGED payments
             ELSE /\ payments' = [payments EXCEPT
                         ![req[s].payment_id].status = "COMPLETED",
                         ![req[s].payment_id].completed_at = now]
                  /\ Continue(s, req[s], "charge_log_completion")
                  /\ UNCHANGED <<idempotency_keys, metrics, tasks, served, failed>>

\* charge metrics that leave the processed volume alone
ChargeMetricsFlat(m, amount) ==
    [m EXCEPT !.payments_created_total = @ + 1,
              !.payments_by_status["COMPLETED"] = @ + 1]

\* lines 460-464: the metrics of a charge
ChargeMetrics(m, amount) ==
    [m EXCEPT !.payments_created_total = @ + 1,
              !.payments_by_status["COMPLETED"] = @ + 1,
              !.total_amount_processed = @ + amount]

\* lines 453-464: log the completion, update the metrics
ChargeLogCompletion(s) ==
    /\ pc[s] = "charge_log_completion"
    /\ UNCHANGED <<payments, next_payment_id, now>>
    /\ \E fault \in FaultChoices :
          /\ faults' = faults + Count(fault)
          /\ IF fault
             THEN /\ ChargeError(s, req[s])
                  /\ UNCHANGED transactions
             ELSE /\ transactions' = log_transaction(transactions, req[s].payment_id,
                         "PAYMENT", payments[req[s].payment_id].amount, "COMPLETED")
                  /\ metrics' = ChargeMetrics(metrics, payments[req[s].payment_id].amount)
                  /\ Continue(s, req[s], "charge_record")
                  /\ UNCHANGED <<idempotency_keys, tasks, served, failed>>

\* lines 485-491: the notifications of a successful charge
ChargeTasks(ts, order) ==
    ts \o <<Task("order_status", order, "COMPLETED"),
            Task("user_notification", order, "PAYMENT_SUCCESS")>>

\* lines 466-468: the response of a successful charge
ChargeResponseData(pid) == payment_to_dict(payments[pid], transactions)

\* history: the answer of a processed charge, as the client received it
Served(key, code, body, expires_at) ==
    [k \in DOMAIN served \cup {key} |->
        IF k = key THEN [code |-> code, body |-> body, expires_at |-> expires_at]
        ELSE served[k]]

\* a charge that notifies without storing its idempotency record
ChargeRecordUnrecorded(s) ==
    /\ pc[s] = "charge_record"
    /\ UNCHANGED <<payments, transactions, next_payment_id, now>>
    /\ tasks' = ChargeTasks(tasks, payments[req[s].payment_id].order_id)
    /\ Respond(s, req[s], "processed", 201, ChargeResponseData(req[s].payment_id))
    /\ UNCHANGED <<idempotency_keys, metrics, served, failed, faults>>

\* lines 466-493: serialize the response, store the idempotency record, notify
ChargeRecord(s) ==
    /\ pc[s] = "charge_record"
    /\ UNCHANGED <<payments, transactions, next_payment_id, now>>
    /\ \E fault \in FaultChoices :
          /\ faults' = faults + Count(fault)
          /\ IF fault \/ KeyUniqueViolation(req[s].key)
             THEN ChargeError(s, req[s])
             ELSE LET rec == IdempotencyRecord(req[s].key, req[s].payment_id,
                                 req[s].order_id, req[s].amount,
                                 ChargeResponseData(req[s].payment_id))
                  IN  /\ idempotency_keys' = idempotency_keys \cup {rec}
                      /\ tasks' = ChargeTasks(tasks, payments[req[s].payment_id].order_id)
                      /\ Respond(s, req[s], "processed", 201,
                                 ChargeResponseData(req[s].payment_id))
                      /\ served' = Served(req[s].key, 201,
                                          ChargeResponseData(req[s].payment_id),
                                          rec.expires_at)
                      /\ UNCHANGED <<metrics, failed>>

-----------------------------------------------------------------------------
(* POST /v1/payments, the legacy create *)

\* lines 563-566: except Exception of the other handlers: rollback and 500
ServerError(s, r) == Respond(s, r, "failed", 500, [detail |-> "InternalError"])

\* lines 518-523: validation and the business rule, one payment per order
CreateCheck(s, order, amount) ==
    LET r == Request("create", "", order, amount, 0, "") IN
    /\ Free(s)
    /\ next_payment_id <= MaxPaymentId
    /\ UNCHANGED <<payments, transactions, idempotency_keys, next_payment_id,
                   metrics, tasks, now, served, failed, faults>>
    /\ IF ~ValidAmount(amount)
       THEN Respond(s, r, "invalid", 422, [detail |-> "ValidationError"])
       ELSE IF ExistingPayment(order)
       THEN Respond(s, r, "rejected", 400, [detail |-> "DuplicateOrder"])
       ELSE Begin(s, r, "create_insert")

\* a legacy create that inserts the payment as PROCESSING
CreateInsertProcessing(s) ==
    /\ pc[s] = "create_insert"
    /\ UNCHANGED <<transactions, idempotency_keys, metrics, tasks, now, served, failed>>
    /\ \E txn \in generate_transaction_id, fault \in FaultChoices :
          /\ faults' = faults + Count(fault)
          /\ IF fault
             THEN /\ ServerError(s, req[s])
                  /\ UNCHANGED <<payments, next_payment_id>>
             ELSE IF PaymentUniqueViolation(req[s].order_id, txn)
             THEN /\ ServerError(s, req[s])
                  /\ next_payment_id' = next_payment_id + 1
                  /\ UNCHANGED payments
             ELSE /\ payments' = payments @@ (next_payment_id :>
                         NewPayment(next_payment_id, req[s].order_id, req[s].amount,
                                    "PROCESSING", txn))
                  /\ next_payment_id' = next_payment_id + 1
                  /\ Continue(s, [req[s] EXCEPT !.payment_id = next_payment_id],
                              "create_log")

\* lines 525-543: generate the transaction id, insert the payment, commit
CreateInsert(s) ==
    /\ pc[s] = "create_insert"
    /\ UNCHANGED <<transactions, idempotency_keys, metrics, tasks, now, served, failed>>
    /\ \E txn \in generate_transaction_id, fault \in FaultChoices :
          /\ faults' = faults + Count(fault)
          /\ IF fault
             THEN /\ ServerError(s, req[s])
                  /\ UNCHANGED <<payments, next_payment_id>>
             ELSE IF PaymentUniqueViolation(req[s].order_id, txn)
             THEN /\ ServerError(s, req[s])
                  /\ next_payment_id' = next_payment_id + 1
                  /\ UNCHANGED payments
             ELSE /\ payments' = payments @@ (next_payment_id :>
                         NewPayment(next_payment_id, req[s].order_id, req[s].amount,
                                    "PENDING", txn))
                  /\ next_payment_id' = next_payment_id + 1
                  /\ Continue(s, [req[s] EXCEPT !.payment_id = next_payment_id],
                              "create_log")

\* lines 552-555: the metrics of a legacy create
CreateMetrics(m) ==
    [m EXCEPT !.payments_created_total = @ + 1,
              !.payments_by_status["PENDING"] = @ + 1]

\* lines 545-559: log the initial transaction, update the metrics, answer
CreateLog(s) ==
    /\ pc[s] = "create_log"
    /\ UNCHANGED <<payments, idempotency_keys, next_payment_id, tasks, now, served, failed>>
    /\ \E fault \in FaultChoices :
          /\ faults' = faults + Count(fault)
          /\ IF fault
             THEN /\ ServerError(s, req[s])
                  /\ UNCHANGED <<transactions, metrics>>
             ELSE /\ transactions' = log_transaction(transactions, req[s].payment_id,
                         "PAYMENT", payments[req[s].payment_id].amount, "PENDING")
                  /\ metrics' = CreateMetrics(metrics)
                  /\ Respond(s, req[s], "processed", 201,
                             payment_to_dict(payments[req[s].payment_id], transactions'))

-----------------------------------------------------------------------------
(* PATCH /v1/payments/{payment_id}/status *)

PaymentIds == 1 .. MaxPaymentId

\* lines 650-655: the transitions update_payment_status refuses
UpdateRefused(status, target) ==
    \/ status = "COMPLETED" /\ target # "REFUNDED"
    \/ status = "REFUNDED"

\* line 665: the first entry into COMPLETED
StampsCompletedAt(p, target) == target = "COMPLETED" /\ p.completed_at = NULL

\* lines 664-671: the counters update_payment_status changes before its commit
UpdateEarlyMetrics(m, p, target) ==
    [m EXCEPT !.total_amount_processed =
                  IF StampsCompletedAt(p, target) THEN @ + p.amount ELSE @,
              !.payments_failed_total =
                  IF target = "FAILED" THEN @ + 1 ELSE @]

\* lines 644-671: load the payment, check the rules, change the loaded object
UpdateRead(s, pid, target) ==
    LET r == Request("update", "", 0, 0, pid, target) IN
    /\ Free(s)
    /\ Len(transactions) < MaxTransactions
    /\ UNCHANGED <<payments, transactions, idempotency_keys, next_payment_id,
                   tasks, now, served, failed, faults>>
    /\ IF pid \notin DOMAIN payments
       THEN /\ Respond(s, r, "rejected", 404, [detail |-> "NotFound"])
            /\ UNCHANGED metrics
       ELSE IF UpdateRefused(payments[pid].status, target)
       THEN /\ Respond(s, r, "rejected", 400, [detail |-> "InvalidTransition"])
            /\ UNCHANGED metrics
       ELSE /\ Begin(s, [r EXCEPT !.old_status = payments[pid].status,
                                  !.order_id = payments[pid].order_id,
                                  !.completed_at =
                                      IF StampsCompletedAt(payments[pid], target)
                                      THEN now ELSE NULL],
                     "update_commit")
            /\ metrics' = UpdateEarlyMetrics(metrics, payments[pid], target)

\* line 673: commit the changed columns
UpdateCommit(s) ==
    /\ pc[s] = "update_commit"
    /\ UNCHANGED <<transactions, idempotency_keys, next_payment_id, metrics, tasks,
                   now, served, failed>>
    /\ \E fault \in FaultChoices :
          /\ faults' = faults + Count(fault)
          /\ IF fault
             THEN /\ ServerError(s, req[s])
                  /\ UNCHANGED payments
             ELSE /\ payments' = [payments EXCEPT
                         ![req[s].payment_id].status = req[s].target,
                         ![req[s].payment_id].completed_at =
                             IF req[s].completed_at # NULL THEN req[s].completed_at ELSE @]
                  /\ Continue(s, req[s], "update_log")

\* lines 682-684, 805-807: one payment moves from one status to another
MoveStatusMetrics(m, old, new) ==
    [m EXCEPT !.payments_by_status =
        [st \in PaymentStatus |->
            @[st] - (IF st = old THEN 1 ELSE 0) + (IF st = new THEN 1 ELSE 0)]]

\* a status update that notifies the order service only
UpdateTasksNoRelease(ts, order, target) ==
    ts \o <<Task("order_status", order, target)>>

\* lines 688-698: the notifications of a status update
UpdateTasks(ts, order, target) ==
    ts \o <<Task("order_status", order, target)>>
       \o (IF target = "FAILED"
           THEN <<Task("inventory_release", order, "Payment failed"),
                  Task("user_notification", order, "PAYMENT_FAILED")>>
           ELSE <<>>)

\* lines 675-701: log the transition, update the metrics, notify, answer
UpdateLog(s) ==
    /\ pc[s] = "update_log"
    /\ UNCHANGED <<payments, idempotency_keys, next_payment_id, now, served, failed>>
    /\ \E fault \in FaultChoices :
          /\ faults' = faults + Count(fault)
          /\ IF fault
             THEN /\ ServerError(s, req[s])
                  /\ UNCHANGED <<transactions, metrics, tasks>>
             ELSE /\ transactions' = log_transaction(transactions, req[s].payment_id,
                         "PAYMENT", payments[req[s].payment_id].amount, req[s].target)
                  /\ metrics' = MoveStatusMetrics(metrics, req[s].old_status, req[s].target)
                  /\ tasks' = UpdateTasks(tasks, payments[req[s].payment_id].order_id,
                                          req[s].target)
                  /\ Respond(s, req[s], "processed", 200,
                             payment_to_dict(payments[req[s].payment_id], transactions'))

-----------------------------------------------------------------------------
(* POST /v1/payments/{payment_id}/refund *)

\* a refund amount that is cut down to the amount of the payment
RefundAmountCapped(p, amount) ==
    IF amount # NULL /\ amount < p.amount THEN amount ELSE p.amount

\* a refund amount that is always the amount of the payment
RefundAmountFull(p, amount) == p.amount

\* line 728: the refund amount, the full amount when none is given
RefundAmount(p, amount) == IF amount # NULL /\ amount # 0 THEN amount ELSE p.amount

\* lines 717-736: load the payment, check the rules, change the loaded object
RefundRead(s, pid, amount) ==
    LET r == Request("refund", "", 0, amount, pid, "REFUNDED") IN
    /\ Free(s)
    /\ Len(transactions) < MaxTransactions
    /\ UNCHANGED <<payments, transactions, idempotency_keys, next_payment_id,
                   metrics, tasks, now, served, failed, faults>>
    /\ IF pid \notin DOMAIN payments
       THEN Respond(s, r, "rejected", 404, [detail |-> "NotFound"])
       ELSE IF payments[pid].status # "COMPLETED"
       THEN Respond(s, r, "rejected", 400, [detail |-> "InvalidState"])
       ELSE IF RefundAmount(payments[pid], amount) > payments[pid].amount
       THEN Respond(s, r, "rejected", 400, [detail |-> "AmountExceeded"])
       ELSE Begin(s, [r EXCEPT !.old_status = payments[pid].status,
                               !.order_id = payments[pid].order_id,
                               !.refund_amount = RefundAmount(payments[pid], amount)],
                  "refund_commit")

\* line 738: commit the changed columns
RefundCommit(s) ==
    /\ pc[s] = "refund_commit"
    /\ UNCHANGED <<transactions, idempotency_keys, next_payment_id, metrics, tasks,
                   now, served, failed>>
    /\ \E fault \in FaultChoices :
          /\ faults' = faults + Count(fault)
          /\ IF fault
             THEN /\ ServerError(s, req[s])
                  /\ UNCHANGED payments
             ELSE /\ payments' = [payments EXCEPT ![req[s].payment_id].status = "REFUNDED"]
                  /\ Continue(s, req[s], "refund_log")

\* lines 747-751: the metrics of a refund
RefundMetrics(m, refund_amount) ==
    [MoveStatusMetrics(m, "COMPLETED", "REFUNDED") EXCEPT
        !.total_refunds = @ + refund_amount,
        !.refunds_processed_total = @ + 1]

\* lines 755-762: the notifications of a refund
RefundTasks(ts, order) ==
    ts \o <<Task("order_status", order, "REFUNDED"),
            Task("inventory_release", order, "Payment refunded"),
            Task("user_notification", order, "PAYMENT_REFUNDED")>>

\* lines 740-765: log the refund, update the metrics, notify, answer
RefundLog(s) ==
    /\ pc[s] = "refund_log"
    /\ UNCHANGED <<payments, idempotency_keys, next_payment_id, now, served, failed>>
    /\ \E fault \in FaultChoices :
          /\ faults' = faults + Count(fault)
          /\ IF fault
             THEN /\ ServerError(s, req[s])
                  /\ UNCHANGED <<transactions, metrics, tasks>>
             ELSE /\ transactions' = log_transaction(transactions, req[s].payment_id,
                         "REFUND", req[s].refund_amount, "REFUNDED")
                  /\ metrics' = RefundMetrics(metrics, req[s].refund_amount)
                  /\ tasks' = RefundTasks(tasks, payments[req[s].payment_id].order_id)
                  /\ Respond(s, req[s], "processed", 200,
                             payment_to_dict(payments[req[s].payment_id], transactions'))

-----------------------------------------------------------------------------
(* DELETE /v1/payments/{payment_id} *)

\* a cancel that refuses COMPLETED payments only
CancelRefusedCompleted(status) == status = "COMPLETED"

\* line 786: the payments cancel_payment refuses
CancelRefused(status) == status \in {"COMPLETED", "REFUNDED"}

\* lines 779-794: load the payment, check the rules, change the loaded object
CancelRead(s, pid) ==
    LET r == Request("cancel", "", 0, 0, pid, "CANCELLED") IN
    /\ Free(s)
    /\ Len(transactions) < MaxTransactions
    /\ UNCHANGED <<payments, transactions, idempotency_keys, next_payment_id,
                   metrics, tasks, now, served, failed, faults>>
    /\ IF pid \notin DOMAIN payments
       THEN Respond(s, r, "rejected", 404, [detail |-> "NotFound"])
       ELSE IF CancelRefused(payments[pid].status)
       THEN Respond(s, r, "rejected", 400, [detail |-> "InvalidState"])
       ELSE Begin(s, [r EXCEPT !.old_status = payments[pid].status,
                               !.order_id = payments[pid].order_id],
                  "cancel_commit")

\* a cancel whose commit writes no status
CancelCommitKeepsStatus(s) ==
    /\ pc[s] = "cancel_commit"
    /\ UNCHANGED <<payments, transactions, idempotency_keys, next_payment_id, metrics,
                   tasks, now, served, failed, faults>>
    /\ Continue(s, req[s], "cancel_log")

\* line 796: commit the changed columns
CancelCommit(s) ==
    /\ pc[s] = "cancel_commit"
    /\ UNCHANGED <<transactions, idempotency_keys, next_payment_id, metrics, tasks,
                   now, served, failed>>
    /\ \E fault \in FaultChoices :
          /\ faults' = faults + Count(fault)
          /\ IF fault
             THEN /\ ServerError(s, req[s])
                  /\ UNCHANGED payments
             ELSE /\ payments' = [payments EXCEPT ![req[s].payment_id].status = "CANCELLED"]
                  /\ Continue(s, req[s], "cancel_log")

\* lines 798-812: log the cancellation, update the metrics, answer
CancelLog(s) ==
    /\ pc[s] = "cancel_log"
    /\ UNCHANGED <<payments, idempotency_keys, next_payment_id, tasks, now, served, failed>>
    /\ \E fault \in FaultChoices :
          /\ faults' = faults + Count(fault)
          /\ IF fault
             THEN /\ ServerError(s, req[s])
                  /\ UNCHANGED <<transactions, metrics>>
             ELSE /\ transactions' = log_transaction(transactions, req[s].payment_id,
                         "PAYMENT", payments[req[s].payment_id].amount, "CANCELLED")
                  /\ metrics' = MoveStatusMetrics(metrics, req[s].old_status, "CANCELLED")
                  /\ Respond(s, req[s], "processed", 200,
                             payment_to_dict(payments[req[s].payment_id], transactions'))

-----------------------------------------------------------------------------
(* The notification tasks on the event loop *)

\* stop_after_attempt of the @retry decorators of notify_order_service,
\* release_inventory_reservation and send_notification
OrderStopAfterAttempt == 3
InventoryStopAfterAttempt == 2
NotificationStopAfterAttempt == 2

\* a retry policy that allows every call four attempts
StopAfterFour(kind) == 4

stop_after_attempt(kind) ==
    CASE kind = "order_status" -> OrderStopAfterAttempt
      [] kind = "inventory_release" -> InventoryStopAfterAttempt
      [] kind = "user_notification" -> NotificationStopAfterAttempt

\* a send_notification that re-raises like the other two calls
RaisesAlways(kind, ok) == ~ok

\* whether an attempt leaves the decorated function with an exception: lines
\* 283-285 and 307-309 re-raise it, lines 335-338 return False
Raises(kind, ok) == ~ok /\ kind # "user_notification"

\* the wrappers notify_order_service_async and release_inventory_async catch
\* what the call raises once the retries are used up
Absorbs(kind) == kind \in {"order_status", "inventory_release"}

\* the attempts made so far for task i
Attempts(i) == IF i \in DOMAIN deliveries THEN deliveries[i].attempts ELSE 0

\* task i has not ended
Waiting(i) == i \in DOMAIN deliveries => deliveries[i].state = "waiting"

\* tenacity: what becomes of the task after its n-th attempt; a timeout of the
\* HTTP client (5 seconds) is a failed attempt
Outcome(kind, n, ok) ==
    IF ok THEN "delivered"
    ELSE IF ~Raises(kind, ok) THEN "swallowed"
    ELSE IF n < stop_after_attempt(kind) THEN "waiting"
    ELSE IF Absorbs(kind) THEN "dropped"
    ELSE "raised"

\* a retry that starts over when its attempts are used up
DeliveryRestarting(i, ok) ==
    [j \in DOMAIN deliveries \cup {i} |->
        IF j = i
        THEN IF Outcome(tasks[i].kind, Attempts(i) + 1, ok) = "dropped"
             THEN [attempts |-> 0, state |-> "waiting"]
             ELSE [attempts |-> Attempts(i) + 1,
                   state |-> Outcome(tasks[i].kind, Attempts(i) + 1, ok)]
        ELSE deliveries[j]]

\* tenacity and the task itself: the attempts and the state of task i after
\* one more attempt
Delivery(i, ok) ==
    [j \in DOMAIN deliveries \cup {i} |->
        IF j = i
        THEN [attempts |-> Attempts(i) + 1,
              state |-> Outcome(tasks[i].kind, Attempts(i) + 1, ok)]
        ELSE deliveries[j]]

\* a dispatcher whose dropped event counts as a failed payment
AttemptCounted(i, ok) ==
    /\ \A s \in Slots : pc[s] = "idle"
    /\ i \in 1 .. Len(tasks)
    /\ Waiting(i)
    /\ deliveries' = Delivery(i, ok)
    /\ metrics' = IF deliveries'[i].state = "dropped"
                  THEN ChargeFailureMetrics(metrics) ELSE metrics
    /\ UNCHANGED <<payments, transactions, idempotency_keys, next_payment_id,
                   tasks, now, pc, req, last, served, failed, faults>>

\* one HTTP call of a task; the handlers do not await, so the event loop runs
\* the tasks between the steps of no handler of its worker
Attempt(i, ok) ==
    /\ \A s \in Slots : pc[s] = "idle"
    /\ i \in 1 .. Len(tasks)
    /\ Waiting(i)
    /\ deliveries' = Delivery(i, ok)
    /\ UNCHANGED <<payments, transactions, idempotency_keys, next_payment_id,
                   metrics, tasks, now, pc, req, last, served, failed, faults>>

-----------------------------------------------------------------------------
(* The response leaves the service *)

Deliver ==
    /\ last # NoLast
    /\ last' = NoLast
    /\ UNCHANGED <<payments, transactions, idempotency_keys, next_payment_id,
                   metrics, tasks, now, pc, req, served, failed, faults, deliveries>>

-----------------------------------------------------------------------------
(* The clock *)

\* the clock advances between requests: a request takes far less than an hour
Tick ==
    /\ \A s \in Slots : Free(s)
    /\ now + TickHours <= MaxTime
    /\ now' = now + TickHours
    /\ UNCHANGED <<payments, transactions, idempotency_keys, next_payment_id,
                   metrics, tasks, pc, req, last, served, failed, faults, deliveries>>

-----------------------------------------------------------------------------
(* Specifications *)

Init ==
    /\ payments = <<>>
    /\ transactions = <<>>
    /\ idempotency_keys = {}
    /\ next_payment_id = 1
    /\ metrics = [payments_created_total |-> 0,
                  payments_failed_total |-> 0,
                  payments_by_status |-> [st \in PaymentStatus |-> 0],
                  total_amount_processed |-> 0,
                  total_refunds |-> 0,
                  refunds_processed_total |-> 0,
                  payment_processing_errors |-> 0]
    /\ tasks = <<>>
    /\ now = 0
    /\ pc = [s \in Slots |-> "idle"]
    /\ req = [s \in Slots |-> NoRequest]
    /\ last = NoLast
    /\ served = <<>>
    /\ failed = {}
    /\ faults = 0
    /\ deliveries = <<>>

ChargeStep(s) ==
    \/ \E key \in Keys, order \in Orders, amount \in ChargeAmounts :
          ChargeLookup(s, key, order, amount)
    \/ ChargeCheckOrder(s)
    \/ ChargeInsert(s)
    \/ ChargeLogInitial(s)
    \/ ChargeComplete(s)
    \/ ChargeLogCompletion(s)
    \/ ChargeRecord(s)

CreateStep(s) ==
    \/ \E order \in Orders, amount \in ChargeAmounts : CreateCheck(s, order, amount)
    \/ CreateInsert(s)
    \/ CreateLog(s)

UpdateStep(s) ==
    \/ \E pid \in PaymentIds, target \in PaymentStatus : UpdateRead(s, pid, target)
    \/ UpdateCommit(s)
    \/ UpdateLog(s)

RefundStep(s) ==
    \/ \E pid \in PaymentIds, amount \in RefundAmounts : RefundRead(s, pid, amount)
    \/ RefundCommit(s)
    \/ RefundLog(s)

CancelStep(s) ==
    \/ \E pid \in PaymentIds : CancelRead(s, pid)
    \/ CancelCommit(s)
    \/ CancelLog(s)

\* The charge protocol: charges, legacy creates, refunds and cancellations, one
\* request at a time, with the clock and with failing commits.
Next ==
    \/ ChargeStep(1)
    \/ CreateStep(1)
    \/ RefundStep(1)
    \/ CancelStep(1)
    \/ Deliver
    \/ Tick

Spec == Init /\ [][Next]_vars

\* the database does not fail
InitNoFaults ==
    /\ payments = <<>>
    /\ transactions = <<>>
    /\ idempotency_keys = {}
    /\ next_payment_id = 1
    /\ metrics = [payments_created_total |-> 0,
                  payments_failed_total |-> 0,
                  payments_by_status |-> [st \in PaymentStatus |-> 0],
                  total_amount_processed |-> 0,
                  total_refunds |-> 0,
                  refunds_processed_total |-> 0,
                  payment_processing_errors |-> 0]
    /\ tasks = <<>>
    /\ now = 0
    /\ pc = [s \in Slots |-> "idle"]
    /\ req = [s \in Slots |-> NoRequest]
    /\ last = NoLast
    /\ served = <<>>
    /\ failed = {}
    /\ faults = MaxFaults
    /\ deliveries = <<>>

\* The ledger: every operation, one request at a time, on a database that works.
NextLedger ==
    \/ ChargeStep(1)
    \/ CreateStep(1)
    \/ UpdateStep(1)
    \/ RefundStep(1)
    \/ CancelStep(1)
    \/ Deliver

SpecLedger == InitNoFaults /\ [][NextLedger]_vars

\* Concurrent creation: the charges and legacy creates of two workers interleave
\* between their database statements.
NextConc ==
    \/ \E s \in Slots : ChargeStep(s)
    \/ \E s \in Slots : CreateStep(s)
    \/ Deliver

SpecConc == InitNoFaults /\ [][NextConc]_vars

\* Concurrent refunds: payments are charged, and the refunds of two workers
\* interleave between their database statements.
NextRefunds ==
    \/ ChargeStep(1)
    \/ \E s \in Slots : RefundStep(s)
    \/ Deliver

SpecRefunds == InitNoFaults /\ [][NextRefunds]_vars

\* The dispatcher: every operation, one request at a time, while fewer than
\* MaxTasks notifications are scheduled, and the attempts of the scheduled tasks
\* with every outcome.
NextDispatch ==
    \/ Len(tasks) < MaxTasks /\ ChargeStep(1)
    \/ Len(tasks) < MaxTasks /\ CreateStep(1)
    \/ Len(tasks) < MaxTasks /\ UpdateStep(1)
    \/ Len(tasks) < MaxTasks /\ RefundStep(1)
    \/ Len(tasks) < MaxTasks /\ CancelStep(1)
    \/ Deliver
    \/ \E i \in 1 .. Len(tasks), ok \in BOOLEAN : Attempt(i, ok)

SpecDispatch == InitNoFaults /\ [][NextDispatch]_vars

\* Completion through the status update: legacy creates and status updates, one
\* request at a time, with failing commits.
NextStatus ==
    \/ CreateStep(1)
    \/ UpdateStep(1)
    \/ Deliver

SpecStatus == Init /\ [][NextStatus]_vars

\* Concurrent transitions: one worker creates payments and updates their status,
\* the other refunds and cancels them, and their steps interleave between the
\* database statements.
NextRaces ==
    \/ CreateStep(1)
    \/ UpdateStep(1)
    \/ RefundStep(2)
    \/ CancelStep(2)
    \/ Deliver

SpecRaces == InitNoFaults /\ [][NextRaces]_vars

\* Notified charges: charges, one request at a time, while at most MaxTasks
\* notifications are scheduled, and the attempts of the scheduled tasks.
NextNotify ==
    \/ Len(tasks) <= MaxTasks /\ ChargeStep(1)
    \/ Deliver
    \/ \E i \in 1 .. Len(tasks), ok \in BOOLEAN : Attempt(i, ok)

SpecNotify == InitNoFaults /\ [][NextNotify]_vars

\* Delivery: legacy creates and status updates, one request at a time, while
\* fewer than MaxQueued notifications are scheduled, and the attempts of the
\* scheduled tasks with every outcome.
NextDelivery ==
    \/ Len(tasks) < MaxQueued /\ CreateStep(1)
    \/ Len(tasks) < MaxQueued /\ UpdateStep(1)
    \/ Deliver
    \/ \E i \in 1 .. Len(tasks), ok \in BOOLEAN : Attempt(i, ok)

\* a handler that has started runs to its end: its code does not await
HandlerProgress ==
    \/ CreateInsert(1)
    \/ CreateLog(1)
    \/ UpdateCommit(1)
    \/ UpdateLog(1)

\* the most tasks NextDelivery schedules: a status update adds up to three
TaskIndices == 1 .. MaxQueued + 2

\* the event loop gives every created task its turn, and every HTTP call ends
\* (the client times out after 5 seconds, the backoff waits at most 10)
SpecDelivery ==
    /\ InitNoFaults
    /\ [][NextDelivery]_vars
    /\ WF_vars(HandlerProgress)
    /\ \A i \in TaskIndices : WF_vars(\E ok \in BOOLEAN : Attempt(i, ok))

-----------------------------------------------------------------------------
(* Properties *)

ledger == <<payments, transactions, idempotency_keys, metrics, tasks, next_payment_id>>

ReplayChangesNothing ==
    [][(last.path # "replayed" /\ last'.path = "replayed") => UNCHANGED ledger]_vars

ReplayAnswered == last.path = "replayed" /\ DOMAIN payments # {}

\* C3: under every interleaving of charge and legacy create requests, no two
\* payments have the same order_id.
OnePaymentPerOrder ==
    \A p, q \in DOMAIN payments :
        payments[p].order_id = payments[q].order_id => p = q

\* a request passed the order check and lost the insert to a concurrent one
InsertRaceLost ==
    /\ last.request.kind \in {"charge", "create"}
    /\ last.path = "failed"
    /\ last.request.payment_id = 0
    /\ \E p \in DOMAIN payments : payments[p].order_id = last.request.order_id

\* what a processed charge leaves behind, with n transactions of the payment
ChargeEffect(n) ==
    (last.request.kind = "charge" /\ last.path = "processed")
    => LET pid == last.request.payment_id
           pre == last.request.pre
       IN  /\ pid \notin pre.payments
           /\ DOMAIN payments = pre.payments \cup {pid}
           /\ payments[pid].status = "COMPLETED"
           /\ payments[pid].order_id = last.request.order_id
           /\ payments[pid].amount = last.request.amount
           /\ Len(transactions) = pre.transactions + n
           /\ Len(TransactionsOf(transactions, pid)) = n
           /\ \A i \in 1 .. n :
                 /\ TransactionsOf(transactions, pid)[i].transaction_type = "PAYMENT"
                 /\ TransactionsOf(transactions, pid)[i].amount = last.request.amount
           /\ metrics.total_amount_processed = pre.metrics_total + last.request.amount

\* C4, as the code has it: a processed charge creates exactly one payment, in
\* status COMPLETED, and exactly two transactions for it (the PROCESSING entry
\* and the COMPLETED entry), and total_amount_processed grows by the amount.
ChargeCreatesTwoTransactions ==
    /\ ChargeEffect(2)
    /\ (last.request.kind = "charge" /\ last.path = "processed")
       => /\ TransactionsOf(transactions, last.request.payment_id)[1].status = "PROCESSING"
          /\ TransactionsOf(transactions, last.request.payment_id)[2].status = "COMPLETED"

\* C4, as stated: a processed charge creates exactly one payment, in status
\* COMPLETED, and exactly one transaction for it, and total_amount_processed
\* grows by the amount.
ChargeCreatesOneTransaction == ChargeEffect(1)

ChargeProcessed ==
    /\ last.request.kind = "charge"
    /\ last.path = "processed"
    /\ last.request.pre.payments # {}

\* C5: a charge that ran concurrently with a charge of the same key and the
\* same body, both having found no record, is not answered with an error: it
\* gets the 201 of the winner.
ConcurrentDuplicateIsReplayed ==
    \A s \in Slots :
        (/\ last.request.kind = "charge"
         /\ last.path \in {"rejected", "failed", "processed"}
         /\ req[s].kind = "charge"
         /\ req[s].key = last.request.key
         /\ req[s].order_id = last.request.order_id
         /\ req[s].amount = last.request.amount)
        => last.code = 201

\* C6: the order check of a charge whose order has a payment answers
\* DuplicateOrder and changes nothing, and leaves no record under the key.
DuplicateOrderCreatesNothing ==
    [][\A s \in Slots :
          (/\ pc[s] = "charge_check"
           /\ pc'[s] # "charge_check"
           /\ \E p \in DOMAIN payments : payments[p].order_id = req[s].order_id)
          => /\ last'.request = req[s]
             /\ last'.code = 400
             /\ last'.body = [detail |-> "DuplicateOrder"]
             /\ UNCHANGED ledger
             /\ \A row \in idempotency_keys' : row.idempotency_key # req[s].key]_vars

DuplicateOrderAnswered ==
    /\ last.request.kind = "charge"
    /\ last.code = 400
    /\ last.body = [detail |-> "DuplicateOrder"]
    /\ idempotency_keys # {}

\* C7: after a charge answered with a 5xx error, no payment and no transaction
\* of that attempt exists.
FailedChargeRolledBack ==
    (last.request.kind = "charge" /\ last.path = "failed")
    => /\ DOMAIN payments = last.request.pre.payments
       /\ Len(transactions) = last.request.pre.transactions

\* C8: the retry of a charge that was answered with a 5xx error, under the
\* same key and with the same body, when no other request created a payment
\* for the order and no fault recurs, is answered 201 with a COMPLETED payment.
RetryAfterFailureSucceeds ==
    \A f \in failed :
        (/\ last.request.kind = "charge"
         /\ last.path \in {"rejected", "processed"}
         /\ last.request.key = f.key
         /\ last.request.order_id = f.order_id
         /\ last.request.amount = f.amount
         /\ \A p \in DOMAIN payments :
               payments[p].order_id = f.order_id
                  => p \in {f.payment_id, last.request.payment_id})
        => /\ last.code = 201
           /\ last.request.payment_id \in DOMAIN payments
           /\ payments[last.request.payment_id].status = "COMPLETED"

\* C9: there is at most one idempotency record per key; every record has
\* status code 201, refers to an existing payment and holds the answer of a
\* processed charge; no record belongs to a charge that was answered with a
\* validation error, DuplicateOrder or a 5xx error.
RecordsOnlyOfProcessedCharges ==
    /\ \A r1, r2 \in idempotency_keys :
          r1.idempotency_key = r2.idempotency_key => r1 = r2
    /\ \A row \in idempotency_keys :
          /\ row.status_code = 201
          /\ row.payment_id \in DOMAIN payments
          /\ row.idempotency_key \in DOMAIN served
          /\ served[row.idempotency_key].code = row.status_code
          /\ served[row.idempotency_key].body = row.response_body
          /\ served[row.idempotency_key].expires_at = row.expires_at
          /\ \A f \in failed : f.payment_id # row.payment_id
    /\ (last.request.kind = "charge" /\ last.path \in {"invalid", "rejected", "failed"})
       => \A row \in idempotency_keys :
             /\ row.response_body # last.body
             /\ row.idempotency_key = last.request.key
                   => row.payment_id \in last.request.pre.payments

\* a charge failed after its payment was stored, next to a stored record
FailureBesideRecord ==
    /\ last.request.kind = "charge"
    /\ last.path = "failed"
    /\ last.request.payment_id # 0
    /\ idempotency_keys # {}

\* C10: a COMPLETED payment changes to REFUNDED only, a REFUNDED payment does
\* not change; a status update, refund or cancel that asks for another change
\* of such a payment is rejected and changes neither payments nor transactions.
CompletedOnlyToRefunded ==
    [][/\ \A p \in DOMAIN payments :
             /\ p \in DOMAIN payments'
             /\ payments[p].status = "COMPLETED"
                   => payments'[p].status \in {"COMPLETED", "REFUNDED"}
             /\ payments[p].status = "REFUNDED" => payments'[p].status = "REFUNDED"
       /\ LET r == IF last' # NoLast THEN last'.request
                   ELSE IF \E s \in Slots : pc'[s] # "idle"
                   THEN req'[CHOOSE s \in Slots : pc'[s] # "idle"]
                   ELSE NoRequest
          IN  (/\ \A s \in Slots : Free(s)
               /\ r.kind \in {"update", "refund", "cancel"}
               /\ r.payment_id \in DOMAIN payments
               /\ \/ payments[r.payment_id].status = "REFUNDED"
                  \/ /\ payments[r.payment_id].status = "COMPLETED"
                     /\ r.target # "REFUNDED")
              => /\ last'.request = r
                 /\ last'.code = 400
                 /\ UNCHANGED <<payments, transactions>>]_vars

\* a status update or a cancel of a REFUNDED payment was rejected
RefundedRefuses ==
    /\ last.request.kind \in {"update", "cancel"}
    /\ last.code = 400
    /\ last.request.payment_id \in DOMAIN payments
    /\ payments[last.request.payment_id].status = "REFUNDED"

\* C11: once a payment is CANCELLED, no step of a status update, refund or
\* cancel changes its status, and none appends a transaction to its log but
\* the log step of the operation that cancelled it.
CancelledIsTerminal ==
    [][\A p \in DOMAIN payments :
          payments[p].status = "CANCELLED"
             => /\ p \in DOMAIN payments'
                /\ payments'[p].status = "CANCELLED"
                /\ \/ TransactionsOf(transactions', p) = TransactionsOf(transactions, p)
                   \/ \E s \in Slots :
                         /\ pc[s] \in {"update_log", "cancel_log"}
                         /\ req[s].payment_id = p
                         /\ req[s].target = "CANCELLED"
                         /\ req[s].old_status # "CANCELLED"]_vars

\* the request that a step takes up, when requests run one at a time
Arriving ==
    IF last' # NoLast THEN last'.request
    ELSE IF \E s \in Slots : pc'[s] # "idle"
    THEN req'[CHOOSE s \in Slots : pc'[s] # "idle"]
    ELSE NoRequest

\* the REFUND entries in the log of payment p
RefundEntries(txs, p) ==
    {i \in DOMAIN txs : txs[i].payment_id = p /\ txs[i].transaction_type = "REFUND"}

\* C12: a refund of a payment that is not COMPLETED, or for more than the
\* payment's amount, is rejected and changes no payment, no transaction, no
\* counter and schedules no notification.
RefusedRefundChangesNothing ==
    [][(/\ \A s \in Slots : Free(s)
        /\ Arriving.kind = "refund"
        /\ Arriving.payment_id \in DOMAIN payments
        /\ \/ payments[Arriving.payment_id].status # "COMPLETED"
           \/ Arriving.amount > payments[Arriving.payment_id].amount)
       => /\ last'.request = Arriving
          /\ last'.code = 400
          /\ UNCHANGED ledger]_vars

\* a refund for more than the amount of a COMPLETED payment was rejected
ExcessRefundRejected ==
    /\ last.request.kind = "refund"
    /\ last.body = [detail |-> "AmountExceeded"]
    /\ payments[last.request.payment_id].status = "COMPLETED"
    /\ last.request.amount > payments[last.request.payment_id].amount

\* C13: the refund of a COMPLETED payment ends with the payment REFUNDED and
\* with one REFUND transaction appended, carrying the requested amount or,
\* when none was given, the payment's amount; it is the payment's only REFUND
\* transaction, and every later refund or status update of it is rejected.
RefundAppendsOneRefund ==
    [][/\ \A s \in Slots :
             (pc[s] = "refund_log" /\ pc'[s] = "idle")
             => /\ last'.request = req[s]
                /\ last'.code = 200
                /\ payments'[req[s].payment_id].status = "REFUNDED"
                /\ transactions' = Append(transactions,
                       [payment_id |-> req[s].payment_id,
                        transaction_type |-> "REFUND",
                        amount |-> IF req[s].amount = NULL
                                   THEN payments[req[s].payment_id].amount
                                   ELSE req[s].amount,
                        status |-> "REFUNDED"])
                /\ Cardinality(RefundEntries(transactions', req[s].payment_id)) = 1
       /\ (/\ \A s \in Slots : Free(s)
           /\ Arriving.kind \in {"refund", "update"}
           /\ Arriving.payment_id \in DOMAIN payments
           /\ payments[Arriving.payment_id].status = "REFUNDED")
          => /\ last'.request = Arriving
             /\ last'.code = 400
             /\ UNCHANGED <<payments, transactions>>]_vars

\* a refund without an amount was processed
FullRefundProcessed ==
    /\ last.request.kind = "refund"
    /\ last.path = "processed"
    /\ last.request.amount = NULL

\* a refund for part of the amount was processed
PartialRefundProcessed ==
    /\ last.request.kind = "refund"
    /\ last.path = "processed"
    /\ last.request.amount # NULL
    /\ last.request.amount < payments[last.request.payment_id].amount

\* C14: no payment has more than one REFUND transaction, and no more refunds
\* are counted than there are REFUNDED payments, also when refunds of one
\* payment run concurrently.
RefundedAtMostOnce ==
    /\ \A p \in DOMAIN payments : Cardinality(RefundEntries(transactions, p)) <= 1
    /\ metrics.refunds_processed_total
          <= Cardinality({p \in DOMAIN payments : payments[p].status = "REFUNDED"})

\* C15: a cancel of a COMPLETED or REFUNDED payment is rejected and changes
\* nothing; a cancel of a PENDING or PROCESSING payment is taken up and ends
\* with the payment CANCELLED and exactly one transaction appended, with
\* status CANCELLED.
CancelRefusesOrCancels ==
    [][/\ (/\ \A s \in Slots : Free(s)
           /\ Arriving.kind = "cancel"
           /\ Arriving.payment_id \in DOMAIN payments)
          => IF payments[Arriving.payment_id].status \in {"COMPLETED", "REFUNDED"}
             THEN /\ last'.request = Arriving
                  /\ last'.code = 400
                  /\ UNCHANGED ledger
             ELSE payments[Arriving.payment_id].status \in {"PENDING", "PROCESSING"}
                     => last' = NoLast
       /\ \A s \in Slots :
             (/\ pc[s] = "cancel_log"
              /\ pc'[s] = "idle"
              /\ req[s].old_status \in {"PENDING", "PROCESSING"})
             => /\ last'.request = req[s]
                /\ last'.code = 200
                /\ payments'[req[s].payment_id].status = "CANCELLED"
                /\ last'.body.status = "CANCELLED"
                /\ Len(transactions') = req[s].pre.transactions + 1
                /\ transactions' = Append(transactions,
                       [payment_id |-> req[s].payment_id,
                        transaction_type |-> "PAYMENT",
                        amount |-> payments[req[s].payment_id].amount,
                        status |-> "CANCELLED"])]_vars

\* a PROCESSING payment was cancelled
ProcessingCancelled ==
    /\ last.request.kind = "cancel"
    /\ last.path = "processed"
    /\ last.request.old_status = "PROCESSING"

DeliveriesDoNotInterfere ==
    [][/\ deliveries' # deliveries
          => UNCHANGED <<payments, transactions, idempotency_keys, next_payment_id,
                         metrics, tasks, now, pc, req, last, served, failed, faults>>
       /\ (pc' # pc \/ last' # last \/ tasks' # tasks) => UNCHANGED deliveries
       /\ (last = NoLast /\ last' # NoLast)
          => /\ SubSeq(tasks', 1, Len(tasks)) = tasks
             /\ \A i \in Len(tasks) + 1 .. Len(tasks') : i \notin DOMAIN deliveries']_vars

\* a refund was processed after an earlier event had been dropped, and its
\* own notifications have made no attempt
RefundProcessedDespiteDrop ==
    /\ last.request.kind = "refund"
    /\ last.path = "processed"
    /\ \E i \in DOMAIN deliveries : deliveries[i].state = "dropped"
    /\ \E j \in 1 .. Len(tasks) :
          tasks[j].kind = "order_status" /\ tasks[j].payload = "REFUNDED"
             /\ j \notin DOMAIN deliveries

\* C18: an order-status event is attempted at most 3 times, an inventory
\* release at most 2 times; an event that was delivered or dropped is not
\* attempted again; it is dropped exactly when its last permitted attempt fails,
\* and an attempt changes no response, metric or failure record.
RetryThenDrop ==
    [][\A i \in DOMAIN deliveries' :
          LET d == deliveries'[i]
              limit == IF tasks[i].kind = "order_status" THEN 3 ELSE 2
          IN  tasks[i].kind \in {"order_status", "inventory_release"}
                 => /\ d.attempts <= limit
                    /\ d.state \in {"waiting", "delivered", "dropped"}
                    /\ d.state = "dropped" => d.attempts = limit
                    /\ d.state = "waiting" => d.attempts < limit
                    /\ (i \in DOMAIN deliveries /\ deliveries[i].state # "waiting")
                          => d = deliveries[i]
                    /\ (i \notin DOMAIN deliveries \/ d # deliveries[i])
                          => UNCHANGED <<last, metrics, failed, pc>>]_vars

\* an order-status event was dropped after three attempts and an inventory
\* release was delivered at its second attempt
DroppedAndRetried ==
    \E i \in DOMAIN deliveries, j \in DOMAIN deliveries :
       /\ tasks[i].kind = "order_status"
       /\ deliveries[i] = [attempts |-> 3, state |-> "dropped"]
       /\ tasks[j].kind = "inventory_release"
       /\ deliveries[j] = [attempts |-> 2, state |-> "delivered"]

\* C19: a user notification that was attempted was attempted once and has
\* ended, delivered or with its failure swallowed; it is never attempted again,
\* and the attempt changes no response, metric or failure record.
NotificationAttemptedOnce ==
    [][\A i \in DOMAIN deliveries' :
          tasks[i].kind = "user_notification"
             => /\ deliveries'[i].attempts = 1
                /\ deliveries'[i].state \in {"delivered", "swallowed"}
                /\ i \in DOMAIN deliveries => deliveries'[i] = deliveries[i]
                /\ i \notin DOMAIN deliveries
                      => UNCHANGED <<last, metrics, failed, pc>>]_vars

\* the one attempt of a user notification failed
NotificationFailureSwallowed ==
    \E i \in DOMAIN deliveries :
       /\ tasks[i].kind = "user_notification"
       /\ deliveries[i] = [attempts |-> 1, state |-> "swallowed"]

\* the amounts of the payments in S
RECURSIVE AmountOf(_)
AmountOf(S) ==
    IF S = {} THEN 0
    ELSE LET p == CHOOSE x \in S : TRUE
         IN  payments[p].amount + AmountOf(S \ {p})

\* C20: between requests, total_amount_processed is the sum of the amounts of
\* the payments that carry a completed_at, each counted once.
ProcessedVolumeCountsCompletedOnce ==
    (\A s \in Slots : pc[s] = "idle")
       => metrics.total_amount_processed =
             AmountOf({p \in DOMAIN payments : payments[p].completed_at # NULL})

\* C21: a charge or legacy create whose amount is not positive or exceeds
\* 100000 is answered 422 in the step that takes it up, and that step changes no
\* payment, transaction, idempotency record, counter or scheduled notification.
InvalidAmountChangesNothing ==
    [][(/\ \A s \in Slots : Free(s)
        /\ Arriving.kind \in {"charge", "create"}
        /\ (Arriving.amount <= 0 \/ Arriving.amount > 100000))
       => /\ last'.request = Arriving
          /\ last'.code = 422
          /\ \A s \in Slots : pc'[s] = "idle"
          /\ UNCHANGED ledger]_vars

\* a charge above the maximum was rejected while the ledger held a payment
ExcessiveChargeRejected ==
    /\ last.request.kind = "charge"
    /\ last.request.amount > 100000
    /\ last.code = 422
    /\ DOMAIN payments # {}

PaymentsAreDistinct ==
    /\ \A p \in DOMAIN payments, q \in DOMAIN payments :
          p # q => /\ payments[p].payment_id # payments[q].payment_id
                   /\ payments[p].transaction_id # payments[q].transaction_id
    /\ \A r1 \in idempotency_keys, r2 \in idempotency_keys :
          r1.idempotency_key # r2.idempotency_key => r1.payment_id # r2.payment_id

\* two charges under different keys for different orders were processed
TwoChargesProcessed ==
    /\ Cardinality(idempotency_keys) = 2
    /\ Cardinality({row.idempotency_key : row \in idempotency_keys}) = 2
    /\ Cardinality({payments[row.payment_id].order_id : row \in idempotency_keys}) = 2
    /\ \A row \in idempotency_keys : payments[row.payment_id].status = "COMPLETED"

\* C24: between requests, the last entry of every payment's transaction log
\* carries the payment's current status.
LastEntryCarriesStatus ==
    (\A s \in Slots : pc[s] = "idle")
       => \A p \in DOMAIN payments :
             LET log == TransactionsOf(transactions, p)
             IN  Len(log) > 0 => log[Len(log)].status = payments[p].status

\* C29: a payment that carries a completed_at is COMPLETED or REFUNDED.
CompletedStaysCompleted ==
    \A p \in DOMAIN payments :
       payments[p].completed_at # NULL => payments[p].status \in {"COMPLETED", "REFUNDED"}

\* a task that has ended: delivered, dropped, or failed and swallowed
Ended(i) ==
    /\ i \in DOMAIN deliveries
    /\ deliveries[i].state \in {"delivered", "dropped", "swallowed"}

\* C25: every scheduled notification task eventually ends, delivered or
\* dropped (a user notification: delivered or its failure swallowed).
EveryTaskEnds ==
    \A i \in TaskIndices : (i <= Len(tasks)) ~> Ended(i)

\* the three tasks of a failed payment have ended, none of them delivered
AllTasksEndedUndelivered ==
    /\ Len(tasks) >= 3
    /\ \A i \in 1 .. Len(tasks) : Ended(i)
    /\ \E i \in 1 .. Len(tasks) :
          tasks[i].kind = "order_status" /\ deliveries[i].state = "dropped"
    /\ \E i \in 1 .. Len(tasks) :
          tasks[i].kind = "inventory_release" /\ deliveries[i].state = "dropped"
    /\ \E i \in 1 .. Len(tasks) :
          tasks[i].kind = "user_notification" /\ deliveries[i].state = "swallowed"

\* C26: the step of a charge that schedules the order-status and the user
\* notification leaves the charge's idempotency record stored; and while such a
\* notification is scheduled or being attempted, a valid charge arriving under
\* the key of that record is answered from the record.
NotifiedChargeIsReplayed ==
    [][/\ \A s \in Slots :
             (pc[s] = "charge_record" /\ tasks' # tasks)
             => /\ tasks' = tasks \o
                      <<Task("order_status", req[s].order_id, "COMPLETED"),
                        Task("user_notification", req[s].order_id, "PAYMENT_SUCCESS")>>
                /\ \E row \in idempotency_keys' :
                      /\ row.idempotency_key = req[s].key
                      /\ row.payment_id = req[s].payment_id
                      /\ row.response_body = last'.body
                      /\ ~(row.expires_at < now)
       /\ \A i \in 1 .. Len(tasks) :
             tasks[i].payload = "PAYMENT_SUCCESS"
             => /\ i > 1
                /\ tasks[i - 1] = Task("order_status", tasks[i].order_id, "COMPLETED")
                /\ \E row \in idempotency_keys :
                      /\ row.payment_id \in DOMAIN payments
                      /\ payments[row.payment_id].order_id = tasks[i].order_id
                      /\ ~(row.expires_at < now)
                      /\ (/\ \A s \in Slots : Free(s)
                          /\ Arriving.kind = "charge"
                          /\ Arriving.key = row.idempotency_key
                          /\ Arriving.amount > 0 /\ Arriving.amount <= 100000)
                         => /\ last'.path = "replayed"
                            /\ last'.code = 201
                            /\ last'.body = row.response_body
                            /\ UNCHANGED ledger]_vars

\* a charge was repeated under its key and replayed after its user
\* notification had been attempted
ReplayedAfterNotification ==
    /\ last.path = "replayed"
    /\ \E i \in DOMAIN deliveries :
          /\ tasks[i].payload = "PAYMENT_SUCCESS"
          /\ tasks[i].order_id = last.body.order_id

\* the tasks a step schedules
Scheduled == SubSeq(tasks', Len(tasks) + 1, Len(tasks'))

\* the scheduled tasks of one kind
ScheduledOf(kind) == SelectSeq(Scheduled, LAMBDA t : t.kind = kind)

\* C27: the step that ends a successful status update or refund schedules
\* exactly one order-status event, for the payment's order and with the status
\* the payment now has; it schedules one inventory release when the update was
\* to FAILED or the operation was a refund, and none otherwise; every other
\* step of a status update, refund or cancel, rejections included, schedules
\* nothing, and no step removes a scheduled task.
TransitionsEmitEvents ==
    [][/\ SubSeq(tasks', 1, Len(tasks)) = tasks
       /\ \A s \in Slots :
             LET pid == req[s].payment_id IN
             /\ (pc[s] \in {"update_log", "refund_log"} /\ last'.path = "processed")
                => /\ ScheduledOf("order_status") =
                         <<Task("order_status", payments'[pid].order_id,
                                payments'[pid].status)>>
                   /\ payments'[pid].status = req[s].target
                   /\ Len(ScheduledOf("inventory_release")) =
                         (IF pc[s] = "refund_log" \/ req[s].target = "FAILED" THEN 1 ELSE 0)
                   /\ \A i \in 1 .. Len(ScheduledOf("inventory_release")) :
                         ScheduledOf("inventory_release")[i].order_id = payments'[pid].order_id
             /\ (pc[s] \in {"update_commit", "refund_commit", "cancel_commit", "cancel_log"}
                 /\ pc'[s] # pc[s])
                => UNCHANGED tasks
       /\ (/\ \A s \in Slots : Free(s)
           /\ Arriving.kind \in {"update", "refund", "cancel"})
          => UNCHANGED tasks]_vars

\* a status update to FAILED was processed after another update of the payment
FailedUpdateProcessed ==
    /\ last.request.kind = "update"
    /\ last.request.target = "FAILED"
    /\ last.path = "processed"
    /\ last.request.old_status = "PROCESSING"

\* C28: the step in which a charge fails with 500 adds one to
\* payments_failed_total and one to payment_processing_errors, changes no other
\* counter and schedules exactly one inventory release for the order of the
\* request; the step in which a charge is rejected as DuplicateOrder or
\* answered from its record changes no counter and schedules nothing.
FailedChargeCountedAndReleased ==
    [][(last = NoLast /\ last' # NoLast /\ last'.request.kind = "charge")
       => /\ last'.code >= 500
             => /\ last'.path = "failed"
                /\ metrics' = [metrics EXCEPT
                                  !.payments_failed_total = @ + 1,
                                  !.payment_processing_errors = @ + 1]
                /\ Scheduled = <<Task("inventory_release", last'.request.order_id,
                                      "Payment processing failed")>>
          /\ last'.path \in {"rejected", "replayed"}
             => /\ last'.code < 500
                /\ UNCHANGED <<metrics, tasks>>
          /\ last'.path = "failed" => last'.code = 500]_vars

\* a charge failed after its payment had been inserted, and its failure was
\* counted and its inventory release scheduled
ChargeFailedAndCounted ==
    /\ last.request.kind = "charge"
    /\ last.path = "failed"
    /\ last.request.payment_id \in DOMAIN payments
    /\ metrics.payments_failed_total = 1
    /\ tasks # <<>>
    /\ tasks[Len(tasks)].kind = "inventory_release"

\* C30: between requests, payments_by_status counts the payments of every
\* status and payments_created_total counts the payments.
CountersMatchLedger ==
    (\A s \in Slots : pc[s] = "idle")
       => /\ \A st \in PaymentStatus :
                metrics.payments_by_status[st] =
                   Cardinality({p \in DOMAIN payments : payments[p].status = st})
          /\ metrics.payments_created_total = Cardinality(DOMAIN payments)

\* C31: between requests, total_refunds does not exceed total_amount_processed.
RefundsWithinProcessed ==
    (\A s \in Slots : pc[s] = "idle")
       => metrics.total_refunds <= metrics.total_amount_processed

\* C32: between requests, a payment carries a completed_at exactly when its
\* status is COMPLETED or REFUNDED.
CompletedAtIffCompleted ==
    (\A s \in Slots : pc[s] = "idle")
       => \A p \in DOMAIN payments :
             payments[p].completed_at # NULL
                <=> payments[p].status \in {"COMPLETED", "REFUNDED"}

\* the amounts of the REFUND entries of a transaction log
RECURSIVE RefundSum(_)
RefundSum(txs) ==
    IF txs = <<>> THEN 0
    ELSE (IF Head(txs).transaction_type = "REFUND" THEN Head(txs).amount ELSE 0)
         + RefundSum(Tail(txs))

\* C33: between requests, every REFUNDED payment has exactly one REFUND
\* transaction, for no more than the payment's amount, and total_refunds is the
\* sum of the REFUND transactions.
RefundedHasOneRefund ==
    (\A s \in Slots : pc[s] = "idle")
       => /\ \A p \in DOMAIN payments :
                payments[p].status = "REFUNDED"
                   => /\ Cardinality(RefundEntries(transactions, p)) = 1
                      /\ \A i \in RefundEntries(transactions, p) :
                            transactions[i].amount <= payments[p].amount
          /\ metrics.total_refunds = RefundSum(transactions)

====
